---- MODULE Spec2Model ----
(***************************************************************************)
(* BetaBot: the /ask orchestrator (src/main.py) and the Streamlit          *)
(* presenter (src/admin_ui.py).                                            *)
(*                                                                         *)
(* Text is a sequence of tokens (strings); the empty text is << >>.  A     *)
(* token is either one character that the code inspects (whitespace,       *)
(* slash) or an opaque run of other characters; a character that has no    *)
(* escape in a TLA+ string is written as its code point, "U+000B".  A Python dict is a        *)
(* function whose DOMAIN is the set of keys that are present.              *)
(***************************************************************************)
EXTENDS Integers, Sequences, FiniteSets, TLC

\* ------------------------------------------------------------------ bounds
\* longest result list the retrieval collaborator returns
MaxResults == 5
\* number of questions typed into the presenter in one session
MaxTurns == 2

\* ------------------------------------------------------- program constants
PageSize == 3
StatusOK == 200
StatusBadRequest == 400

\* ------------------------------------------------------------ text helpers
NL == "\n"
SP == " "
SLASH == "/"

\* str.replace("\n", " ")
ReplaceNewlines(s) == [i \in 1..Len(s) |-> IF s[i] = NL THEN SP ELSE s[i]]

TAB == "\t"
CR == "\r"
FF == "\f"

\* the characters for which Python's str.isspace() holds: str.strip() with no
\* argument removes exactly these
WhitespaceChars ==
    {SP, NL, TAB, CR, FF, "U+000B", "U+001C", "U+001D", "U+001E", "U+001F",
     "U+0085", "U+00A0", "U+1680", "U+2000", "U+2001", "U+2002", "U+2003",
     "U+2004", "U+2005", "U+2006", "U+2007", "U+2008", "U+2009", "U+200A",
     "U+2028", "U+2029", "U+202F", "U+205F", "U+3000"}

IsSpace(c) == c \in WhitespaceChars

RECURSIVE LStrip(_)
LStrip(s) == IF s # << >> /\ IsSpace(Head(s)) THEN LStrip(Tail(s)) ELSE s

RECURSIVE RStrip(_)
RStrip(s) ==
    IF s # << >> /\ IsSpace(s[Len(s)]) THEN RStrip(SubSeq(s, 1, Len(s) - 1)) ELSE s

Strip(s) == RStrip(LStrip(s))

\* link.split("/")[-1]: what follows the last slash (all of it if none)
RECURSIVE LastSegment(_)
LastSegment(s) ==
    IF \E i \in 1..Len(s) : s[i] = SLASH THEN LastSegment(Tail(s)) ELSE s

\* "\n".join(lines)
RECURSIVE JoinLines(_)
JoinLines(lines) ==
    IF lines = << >> THEN << >>
    ELSE IF Len(lines) = 1 THEN lines[1]
    ELSE lines[1] \o <<NL>> \o JoinLines(Tail(lines))

\* s occurs in t as a contiguous run
Contains(t, s) ==
    \E i \in 0..(Len(t) - Len(s)) : SubSeq(t, i + 1, i + Len(s)) = s

\* dict.get(key, default)
DictGet(d, k, default) == IF k \in DOMAIN d THEN d[k] ELSE default

\* order-preserving filter of a sequence by a set of positions
RECURSIVE SelectAt(_, _, _)
SelectAt(s, keep, i) ==
    IF i > Len(s) THEN << >>
    ELSE (IF i \in keep THEN <<s[i]>> ELSE << >>) \o SelectAt(s, keep, i + 1)

\* ------------------------------------------------------------ input domains
Q1 == <<"What is the VAT deadline?">>
Q2 == <<"How to scale?">>
Queries == {Q1, Q2}
EmptyText == << >>
EmptyDict == [k \in {} |-> k]

\* JSON bodies of POST /ask: each of query, question, mode present or not
Body(hasQuery, q, hasQuestion, qn, hasMode, m) ==
    (IF hasQuery THEN "query" :> q ELSE EmptyDict)
    @@ (IF hasQuestion THEN "question" :> qn ELSE EmptyDict)
    @@ (IF hasMode THEN "mode" :> m ELSE EmptyDict)

Modes == {"tax", "therapy", "business"}

Bodies ==
    { Body(hq, q, hqn, qn, hm, m) :
        hq \in BOOLEAN, q \in Queries \cup {EmptyText},
        hqn \in BOOLEAN, qn \in {Q1, EmptyText},
        hm \in BOOLEAN, m \in Modes }

\* excerpts held by the search index; the i-th has line breaks inside and
\* whitespace around it when i is even
Excerpt(i) ==
    IF i % 2 = 0
    THEN <<TAB, SP, "section " \o ToString(i), CR, NL, "applies", "U+00A0", NL>>
    ELSE <<"VAT due 21st (" \o ToString(i) \o ")">>

GsLink(i) == <<"gs:", SLASH, SLASH, "laws", SLASH, "act" \o ToString(i) \o ".pdf">>

\* derivedStructData of the i-th ranked document: the field that carries the
\* excerpt and the title/link vary with the rank
Derived(i) ==
    CASE i % 4 = 1 -> [title |-> <<"Finance Act 2023">>,
                       extractive_answers |-> <<[content |-> Excerpt(i)]>>]
      [] i % 4 = 2 -> [link |-> GsLink(i),
                       extractiveAnswers |-> <<[content |-> Excerpt(i)]>>]
      [] i % 4 = 3 -> [title |-> EmptyText, link |-> EmptyText,
                       snippets |-> <<[snippet |-> Excerpt(i)]>>]
      [] OTHER     -> [title |-> <<"CAMA 2020">>,
                       extractive_segments |-> <<[content |-> Excerpt(i)]>>]

\* a document whose first field is present with empty content, and whose
\* snippets field carries an excerpt
DerivedEmptyFirst ==
    [title |-> <<"PITA">>,
     extractive_answers |-> <<[content |-> EmptyText]>>,
     snippets |-> <<[snippet |-> <<"lunch allowance is taxable">>]>>]

\* a document with none of the four fields
DerivedNoContent == [title |-> <<"Index page">>]

\* a document whose excerpt is only a newline
DerivedBlank == [snippets |-> <<[snippet |-> <<NL>>]>>]

\* a document whose extractive answer has no content key
DerivedNoKey == [extractiveAnswers |-> <<[pageNumber |-> <<"4">>]>>]

\* a document whose snippets list is empty
DerivedEmptyList == [title |-> <<"Stub">>, snippets |-> << >>]

Ranked(n) == [i \in 1..n |-> Derived(i)]

\* what client.search does: raise, or return the ranked documents
SearchOutcomes ==
    { [raises |-> TRUE, results |-> << >>] }
    \cup { [raises |-> FALSE, results |-> r] :
            r \in { << >>, Ranked(1), Ranked(PageSize), Ranked(MaxResults),
                    <<DerivedEmptyFirst, Derived(2), DerivedNoContent>>,
                    <<DerivedNoContent, DerivedBlank, DerivedNoKey>>,
                    <<Derived(1), DerivedEmptyList>> } }

\* deterministic stubs of client.search: the second query is answered as the
\* first is, without the top-ranked document
SearchStubs ==
    { [q \in Queries |->
        IF q = Q1 \/ o.results = << >> THEN o
        ELSE [raises |-> o.raises, results |-> Tail(o.results)]] :
      o \in SearchOutcomes }

\* rows of the indicators query; value is in thousandths of a percent
Rows ==
    << [indicator_name |-> "GDP growth (annual %)", year |-> 2023, value |-> 2675],
       [indicator_name |-> "Inflation, consumer prices (annual %)", year |-> 2023,
        value |-> 24659],
       [indicator_name |-> "GDP growth (annual %)", year |-> 2020, value |-> -1794] >>

\* what bq_client.query(...).result() does: raise, or return rows
EconOutcomes ==
    { [raises |-> TRUE, rows |-> << >>],
      [raises |-> FALSE, rows |-> << >>],
      [raises |-> FALSE, rows |-> Rows] }

\* what model.generate_content does: "ok" answers every prompt, "fail" raises
\* on every prompt, "failOnEvidence" raises on prompts that carry sources
GenStubs == {"ok", "fail", "failOnEvidence"}

\* round trip time of the presenter's HTTP call, in milliseconds
Latencies == {950}

\* ------------------------------------------------------------------- state
VARIABLES
    model,           \* main.py:41-46  TRUE iff the GenerativeModel was created
    bq_client,       \* main.py:42-49  TRUE iff the BigQuery client was created
    my_credentials,  \* main.py:29-36  TRUE iff service credentials were loaded
    searchStub,      \* behaviour of client.search, a function of the query
    econStub,        \* behaviour of bq_client.query(...).result()
    genStub,         \* behaviour of model.generate_content
    pc,              \* position of the request being handled by the endpoint
    client,          \* who sent the request being handled: "api" or "ui"
    user_query,      \* get_ai_response: user_query
    mode,            \* get_ai_response: mode
    sources_list,    \* get_ai_response: sources_list
    econ_data,       \* get_ai_response: econ_data
    prompt,          \* get_ai_response: prompt
    ret,             \* the tuple get_ai_response returns
    response,        \* the HTTP response of POST /ask
    calls,           \* calls made while handling the request, in order
    probe,           \* an earlier request and what was observed for it
    messages,        \* admin_ui: st.session_state.messages
    last_metadata,   \* admin_ui: st.session_state.last_metadata
    ui_pc,           \* admin_ui: position of the script run, "ready" if none
    ui_prompt,       \* admin_ui: prompt (line 117) of the script run
    ui_response,     \* admin_ui: response (line 129) of the script run
    ui_request,      \* admin_ui: a Stop or a submission made during the run
    placeholder,     \* admin_ui: what message_placeholder shows
    http_calls,      \* admin_ui: number of requests.post calls made
    submitted,       \* admin_ui: number of queries the user has submitted
    inbox,           \* requests sent to POST /ask and not yet received
    serving          \* the requests.post call the endpoint is answering

svars == <<model, bq_client, my_credentials, searchStub, econStub, genStub>>
rvars == <<pc, client, user_query, mode, sources_list, econ_data, prompt, ret,
           response, calls>>
uvars == <<messages, last_metadata, ui_pc, ui_prompt, ui_response, ui_request,
           placeholder, http_calls, submitted, inbox, serving>>
vars == <<svars, rvars, probe, uvars>>

\* ------------------------------------------------- QueryRequest (main.py:79)
Truthy(d, k) == k \in DOMAIN d /\ d[k] # EmptyText

\* the "before" validator: copy question into query when query has no text
check_query_or_question(data) ==
    IF ~Truthy(data, "query") /\ Truthy(data, "question")
    THEN ("query" :> data["question"]) @@ data
    ELSE data

\* the validated request; a field that is absent is None, mode defaults to "tax"
QueryRequest(data) ==
    LET d == check_query_or_question(data)
    IN  IF "mode" \in DOMAIN d THEN d ELSE ("mode" :> "tax") @@ d

\* faulty variant: the fields are tested against None instead of for text
HasFinalQueryNotNone(req) == "query" \in DOMAIN req \/ "question" \in DOMAIN req

\* req.query or req.question has text
HasFinalQuery(req) == Truthy(req, "query") \/ Truthy(req, "question")

\* line 240: req.query or req.question; None and "" are both the empty text here
final_query(req) ==
    IF Truthy(req, "query") THEN req["query"] ELSE DictGet(req, "question", EmptyText)

\* ------------------------------------- search_nigerian_laws (main.py:120-176)
\* lines 147-155
Title(derived) ==
    IF Truthy(derived, "title") THEN derived["title"]
    ELSE LET link == DictGet(derived, "link", EmptyText)
         IN  IF link # EmptyText THEN LastSegment(link) ELSE <<"Official Document">>

\* the if/elif chain of lines 159-166: the field and the key read from it
ContentFields ==
    << [field |-> "extractive_answers", key |-> "content"],
       [field |-> "extractiveAnswers", key |-> "content"],
       [field |-> "snippets", key |-> "snippet"],
       [field |-> "extractive_segments", key |-> "content"] >>

\* index of the branch taken: the first field that is a key of derived, 0 if none
TakenBranch(derived) ==
    IF \E i \in 1..Len(ContentFields) : ContentFields[i].field \in DOMAIN derived
    THEN CHOOSE i \in 1..Len(ContentFields) :
            /\ ContentFields[i].field \in DOMAIN derived
            /\ \A j \in 1..(i - 1) : ContentFields[j].field \notin DOMAIN derived
    ELSE 0

\* derived[field][0] raises IndexError on an empty list
ContentRaises(derived) ==
    LET b == TakenBranch(derived)
    IN  b # 0 /\ derived[ContentFields[b].field] = << >>

\* content as line 157-166 leave it
RawContent(derived) ==
    LET b == TakenBranch(derived)
    IN  IF b = 0 THEN EmptyText
        ELSE DictGet(derived[ContentFields[b].field][1], ContentFields[b].key, EmptyText)

\* line 170
CleanContent(content) == Strip(ReplaceNewlines(content))

\* faulty variant: the list outlives the call and is appended to again
LeftoverSources == sources_list

\* line 140: the list the loop appends to
NewSources == << >>

\* the loop of lines 141-171 from result i on; raised is set when a result raises
RECURSIVE SearchLoop(_, _, _)
SearchLoop(results, i, sources) ==
    IF i > Len(results) THEN [raised |-> FALSE, sources |-> sources]
    ELSE LET derived == results[i]
         IN  IF ContentRaises(derived) THEN [raised |-> TRUE, sources |-> sources]
             ELSE IF RawContent(derived) # EmptyText
             THEN SearchLoop(results, i + 1,
                     Append(sources, [source |-> Title(derived),
                                      content |-> CleanContent(RawContent(derived))]))
             ELSE SearchLoop(results, i + 1, sources)

\* TRUE iff the function reaches client.search (line 138)
SearchCallsClient == my_credentials

search_nigerian_laws(query) ==
    IF ~my_credentials THEN << >>
    ELSE LET out == searchStub[query]
         IN  IF out.raises THEN << >>
             ELSE LET r == SearchLoop(out.results, 1, NewSources)
                  IN  IF r.raised THEN << >> ELSE r.sources

\* ------------------------------------- get_economic_context (main.py:102-117)
TwoDigits(n) == IF n < 10 THEN "0" \o ToString(n) ELSE ToString(n)

\* 2^k mod 125
RECURSIVE Pow2Mod125(_)
Pow2Mod125(k) == IF k = 0 THEN 1 ELSE (2 * Pow2Mod125(k - 1)) % 125

\* the largest j with 1000 * 2^j <= v, for v >= 1000
RECURSIVE Log2Up(_, _)
Log2Up(v, j) == IF 2000 * (2 ^ j) <= v THEN Log2Up(v, j + 1) ELSE j

\* the least m with v * 2^m >= 1000, for 0 < v < 1000
RECURSIVE Log2Down(_, _)
Log2Down(v, m) == IF v * (2 ^ m) >= 1000 THEN m ELSE Log2Down(v, m + 1)

\* floor(log2(v / 1000)) for v > 0
FloorLog2(v) == IF v >= 1000 THEN Log2Up(v, 0) ELSE -Log2Down(v, 1)

\* The float nearest to v/1000 is n / 2^e with n = round(v * 2^(e-3) / 125)
\* and e = 52 - FloorLog2(v); the remainder of v * 2^(e-3) modulo 125 tells
\* on which side of v/1000 it lies: 0 exact, -1 below, 1 above.
FloatSide(v) ==
    LET r == ((v % 125) * Pow2Mod125(49 - FloorLog2(v))) % 125
    IN  IF r = 0 THEN 0 ELSE IF 2 * r < 125 THEN -1 ELSE 1

\* hundredths that "{:.2f}" prints for the float nearest to v/1000, v >= 0:
\* the float is rounded to the nearest hundredth, an exact tie to the even one
Hundredths(v) ==
    IF v % 10 # 5 THEN (v + 5) \div 10
    ELSE LET h == v \div 10
         IN  CASE FloatSide(v) = 1 -> h + 1
               [] FloatSide(v) = -1 -> h
               [] OTHER -> IF h % 2 = 0 THEN h ELSE h + 1

\* f"{value:.2f}" of a value given in thousandths
RECURSIVE Format2f(_)
Format2f(v) ==
    IF v < 0 THEN "-" \o Format2f(-v)
    ELSE LET h == Hundredths(v)
         IN  ToString(h \div 100) \o "." \o TwoDigits(h % 100)

\* line 113
StatLine(row) ==
    <<"- ", row.indicator_name, " (", ToString(row.year), "): ",
      Format2f(row.value), "%">>

\* faulty variant: a failure is reported in the returned text
get_economic_context_reporting ==
    IF ~bq_client THEN <<"BigQuery unavailable">>
    ELSE IF econStub.raises THEN <<"BigQuery Error">>
    ELSE JoinLines([i \in 1..Len(econStub.rows) |-> StatLine(econStub.rows[i])])

EconCallsClient == bq_client

get_economic_context ==
    IF ~bq_client THEN EmptyText
    ELSE IF econStub.raises THEN EmptyText
    ELSE JoinLines([i \in 1..Len(econStub.rows) |-> StatLine(econStub.rows[i])])

\* ------------------------------------------ get_ai_response (main.py:179-235)
Offline == <<"AI System Offline.">>
Listening == <<"I am listening.">>
NoDocument == <<"No specific document found.">>
SourcesHeader == <<"OFFICIAL SOURCES:", NL>>

\* line 184
TherapyPrompt(q) ==
    <<"You are BetaCare, a therapist. User: '">> \o q \o <<"'. Be empathetic.">>

\* line 199
SourceLine(i, doc) ==
    <<"SOURCE ", ToString(i), " [">> \o doc.source \o <<"]: ">> \o doc.content
    \o <<NL, NL>>

RECURSIVE SourceLines(_, _)
SourceLines(docs, i) ==
    IF i > Len(docs) THEN << >> ELSE SourceLine(i, docs[i]) \o SourceLines(docs, i + 1)

\* lines 195-201
RagText(docs) == IF docs # << >> THEN SourcesHeader \o SourceLines(docs, 1) ELSE NoDocument

\* lines 204-229
TaxPrompt(econ, rag, q) ==
    <<"ROLE: You are 'BetaBot', a Strategic Business Advisor for Nigerian SMEs.",
      "ECONOMIC CONTEXT:", NL>> \o econ \o <<NL, NL>> \o rag
    \o <<NL, NL, "USER QUESTION: \"">> \o q \o <<"\"", NL, "INSTRUCTIONS: ...">>

\* model.generate_content(p).text under the stub: raises, or the text
GenRaises(p) ==
    \/ genStub = "fail"
    \/ genStub = "failOnEvidence" /\ Contains(p, SourcesHeader)

GenText(p) == <<"Generated from: ">> \o p

ThinkingError == <<"Thinking Error: ", "429 quota exceeded">>

\* ------------------------------------------------------------ HTTP responses
NoResponse ==
    [status |-> 0, answer |-> EmptyText, sources |-> << >>,
     economic_data |-> EmptyText, detail |-> EmptyText]

\* lines 246-250, serialised through APIResponse
OkResponse(answer, sources, econ) ==
    [status |-> StatusOK, answer |-> answer, sources |-> sources,
     economic_data |-> econ, detail |-> EmptyText]

\* line 241: HTTPException(status_code=400, detail="Query required")
BadRequest ==
    [status |-> StatusBadRequest, answer |-> EmptyText, sources |-> << >>,
     economic_data |-> EmptyText, detail |-> <<"Query required">>]

\* an exception that escapes the endpoint: FastAPI answers 500
ServerError ==
    [status |-> 500, answer |-> EmptyText, sources |-> << >>,
     economic_data |-> EmptyText, detail |-> <<"Internal Server Error">>]

\* admin_ui.py:104: last_metadata = None
NoMetadata == [none |-> TRUE]

\* no Stop and no submission is waiting for the script run to yield
NoRequest == [kind |-> "none"]

\* ---------------------------------------------------------------------- Init
\* main.py:29-51: model is created before bq_client inside one try block, so
\* bq_client exists only if model does; the credentials are loaded separately
Init ==
    /\ model \in BOOLEAN
    /\ bq_client \in BOOLEAN
    /\ bq_client => model
    /\ my_credentials \in BOOLEAN
    /\ searchStub \in SearchStubs
    /\ econStub \in EconOutcomes
    /\ genStub \in GenStubs
    /\ pc = "idle"
    /\ client = "api"
    /\ user_query = EmptyText
    /\ mode = "tax"
    /\ sources_list = << >>
    /\ econ_data = EmptyText
    /\ prompt = EmptyText
    /\ ret = << >>
    /\ response = NoResponse
    /\ calls = << >>
    /\ probe = {}
    /\ messages = << >>
    /\ last_metadata = NoMetadata
    /\ ui_pc = "ready"
    /\ ui_prompt = EmptyText
    /\ ui_response = NoResponse
    /\ ui_request = NoRequest
    /\ placeholder = EmptyText
    /\ http_calls = 0
    /\ submitted = 0
    /\ inbox = << >>
    /\ serving = 0

\* --------------------------------------------- ask_endpoint (main.py:238-250)
\* a request body reaches the endpoint: validation and lines 240-241.  A new
\* call frame starts: sources_list is not read before line 191 assigns it.
Receive(body, c) ==
    LET req == QueryRequest(body)
    IN  /\ client' = c
        /\ calls' = << >>
        /\ econ_data' = EmptyText
        /\ prompt' = EmptyText
        /\ ret' = << >>
        /\ UNCHANGED sources_list
        /\ user_query' = final_query(req)
        /\ mode' = req["mode"]
        /\ IF ~HasFinalQuery(req)
           THEN /\ response' = BadRequest
                /\ pc' = "responded"
           ELSE /\ response' = NoResponse
                /\ pc' = "get_ai_response"

\* the probe notes that a request for another (query, mode) was received
Interleave(p, req) ==
    IF p.query = final_query(req) /\ p.mode = req["mode"] THEN p
    ELSE [p EXCEPT !.interleaved = TRUE]

\* POST /ask sent by an API client; the previous request has been answered
AskEndpoint(body) ==
    /\ pc \in {"idle", "responded"}
    /\ ui_pc = "ready"
    /\ Receive(body, "api")
    /\ probe' = {Interleave(p, QueryRequest(body)) : p \in probe}
    /\ UNCHANGED <<svars, uvars>>

\* faulty variant: analytics is called before retrieval
TaxStepsSwapped == <<"econ", "search", "generate">>

\* lines 191, 192, 232: the calls of the tax path in statement order
TaxSteps == <<"search", "econ", "generate">>

\* the step after a step of the tax path; the return statement after the last
AfterStep(step) ==
    LET i == CHOOSE j \in 1..Len(TaxSteps) : TaxSteps[j] = step
    IN  IF i < Len(TaxSteps) THEN TaxSteps[i + 1] ELSE "unpack"

\* faulty variant: the mode is not tested before the lookups
DispatchToLookups(m) == "search"

\* line 183
Dispatch(m) == IF m = "therapy" THEN "therapy" ELSE TaxSteps[1]

\* lines 180-183: offline return, or dispatch on the mode
GetAiResponse ==
    /\ pc = "get_ai_response"
    /\ IF ~model
       THEN /\ ret' = <<Offline, << >> >>
            /\ pc' = "unpack"
       ELSE /\ ret' = ret
            /\ pc' = Dispatch(mode)
    /\ UNCHANGED <<svars, client, user_query, mode, sources_list, econ_data, prompt,
                   response, calls, probe, uvars>>

\* lines 184-188
TherapyGenerate ==
    /\ pc = "therapy"
    /\ prompt' = TherapyPrompt(user_query)
    /\ calls' = Append(calls, "generate_content")
    /\ ret' = IF GenRaises(prompt') THEN <<Listening, << >> >>
              ELSE <<GenText(prompt'), << >> >>
    /\ pc' = "unpack"
    /\ UNCHANGED <<svars, client, user_query, mode, sources_list, econ_data,
                   response, probe, uvars>>

\* line 191
SearchNigerianLaws ==
    /\ pc = "search"
    /\ sources_list' = search_nigerian_laws(user_query)
    /\ calls' = calls \o <<"search_nigerian_laws">>
                \o (IF SearchCallsClient THEN <<"client.search">> ELSE << >>)
    /\ pc' = AfterStep("search")
    /\ UNCHANGED <<svars, client, user_query, mode, econ_data, prompt, ret,
                   response, probe, uvars>>

\* line 192
GetEconomicContext ==
    /\ pc = "econ"
    /\ econ_data' = get_economic_context
    /\ calls' = calls \o <<"get_economic_context">>
                \o (IF EconCallsClient THEN <<"bq_client.query">> ELSE << >>)
    /\ pc' = AfterStep("econ")
    /\ UNCHANGED <<svars, client, user_query, mode, sources_list, prompt, ret,
                   response, probe, uvars>>

\* lines 233 and 235: what the tax path returns
TaxSuccess(text, sources, econ) == <<text, sources, econ>>
TaxFailure(e) == <<e, << >> >>

\* lines 195-235
GenerateAnswer ==
    /\ pc = "generate"
    /\ prompt' = TaxPrompt(econ_data, RagText(sources_list), user_query)
    /\ calls' = Append(calls, "generate_content")
    /\ ret' = IF GenRaises(prompt') THEN TaxFailure(ThinkingError)
              ELSE TaxSuccess(GenText(prompt'), sources_list, econ_data)
    /\ pc' = AfterStep("generate")
    /\ UNCHANGED <<svars, client, user_query, mode, sources_list, econ_data,
                   response, probe, uvars>>

\* lines 244-250: unpacking a tuple that has not exactly 3 values raises
\* ValueError, which leaves the endpoint as a 500
Unpack(t) ==
    IF Len(t) = 3 THEN OkResponse(t[1], t[2], t[3]) ELSE ServerError

Observation ==
    [query |-> user_query, mode |-> mode, prompt |-> prompt, response |-> response',
     interleaved |-> FALSE]

Respond ==
    /\ pc = "unpack"
    /\ response' = Unpack(ret)
    /\ pc' = "responded"
    /\ \/ probe' = probe
       \/ /\ client = "api"
          /\ probe = {}
          /\ probe' = {Observation}
    /\ UNCHANGED <<svars, client, user_query, mode, sources_list, econ_data, prompt,
                   ret, calls, uvars>>

\* -------------------------------- request sent by admin_ui (main.py:238-250)
\* ask_endpoint is a coroutine that never awaits: the server handles one
\* request at a time, the next one is received when this one has returned
ServeUI ==
    /\ pc \in {"idle", "responded"}
    /\ inbox # << >>
    /\ Receive(Head(inbox).body, "ui")
    /\ serving' = Head(inbox).id
    /\ inbox' = Tail(inbox)
    /\ UNCHANGED <<svars, probe, messages, last_metadata, ui_pc, ui_prompt,
                   ui_response, ui_request, placeholder, http_calls, submitted>>

\* response.text: FastAPI sends an HTTPException as a JSON object with the
\* detail, an escaped exception as the plain text "Internal Server Error"
ResponseText(r) ==
    IF r.status = StatusBadRequest
    THEN <<"{\"detail\":\"">> \o r.detail \o <<"\"}">>
    ELSE r.detail

\* --------------------------------------- chat_input handler (admin_ui.py:117)
\* Streamlit runs the script in a thread of its own.  A Stop or a submission
\* made while the script runs is noted in ui_request and ends the run at its
\* next yield point with an exception that "except Exception" does not catch:
\* every st.* element command is a yield point, and so is an access to
\* st.session_state on the builds whose session state yields.
Thinking == <<"▌ *Thinking...*">>
NoAnswer == <<"No answer provided.">>
ModelName == <<"gemini-2.5-pro">>

StopRequest == [kind |-> "stop"]
RerunRequest(text) == [kind |-> "rerun", prompt |-> text]

Pending == ui_request # NoRequest

\* positions whose next statement is an element command: lines 119-124, 143,
\* 147 and 149
ElementYields == {"appended", "metaset", "failed"}

\* positions whose next statement reads st.session_state: lines 118, 136, 144
StateYields == {"chat_input", "got200", "shown"}

UserTurn(text) == [role |-> "user", content |-> text]
AssistantTurn(text) == [role |-> "assistant", content |-> text]

NumTurns(role) == Cardinality({i \in 1..Len(messages) : messages[i].role = role})

\* line 127
Payload(text) == ("query" :> text) @@ ("mode" :> "tax")

\* response.json() of a 200 response
Json(r) == [answer |-> r.answer, sources |-> r.sources, economic_data |-> r.economic_data]

\* line 134
Answer(r) == DictGet(Json(r), "answer", NoAnswer)

\* lines 136-141
Metadata(data, latency) ==
    [sources |-> DictGet(data, "sources", << >>),
     economic_data |-> DictGet(data, "economic_data", EmptyText),
     latency |-> latency,
     model |-> ModelName]

\* line 144: the turns added once the answer is known
AnswerTurns(answer) == <<AssistantTurn(answer)>>

\* faulty variant: the error message is appended as an assistant turn
ErrorTurnsAppended(text) == <<AssistantTurn(text)>>

\* lines 147 and 149: the turns added when the call fails; the error is shown
\* in the placeholder only
ErrorTurns(text) == << >>

\* lines 147 and 149: the message for a status other than 200, or for the
\* exception requests.post raised (no response then)
ErrorText ==
    IF ui_response = NoResponse
    THEN <<"Connection Failed: ", "HTTPConnectionPool: Max retries exceeded">>
    ELSE <<"API Error: ">> \o ResponseText(ui_response)

\* a script run starts in which st.chat_input (line 117) returns text; the
\* page is drawn anew, without the placeholder of the run before
StartRun(text) ==
    /\ ui_pc' = "chat_input"
    /\ ui_prompt' = text
    /\ ui_response' = NoResponse
    /\ ui_request' = NoRequest
    /\ placeholder' = EmptyText

\* the script run is over; the page stays as drawn
EndRun ==
    /\ ui_pc' = "ready"
    /\ ui_response' = NoResponse
    /\ ui_request' = NoRequest
    /\ UNCHANGED ui_prompt

\* the user submits text in the chat input: a script run starts, or, while
\* one is running, the submission waits for it to yield; at most one Stop or
\* submission is made during a run
UISubmit(text) ==
    /\ submitted < MaxTurns
    /\ ~Pending
    /\ submitted' = submitted + 1
    /\ IF ui_pc = "ready"
       THEN StartRun(text)
       ELSE /\ ui_request' = RerunRequest(text)
            /\ UNCHANGED <<ui_pc, ui_prompt, ui_response, placeholder>>
    /\ UNCHANGED <<svars, rvars, probe, messages, last_metadata, http_calls,
                   inbox, serving>>

\* the user presses Stop while the script runs
UIStop ==
    /\ ui_pc # "ready"
    /\ ~Pending
    /\ ui_request' = StopRequest
    /\ UNCHANGED <<svars, rvars, probe, messages, last_metadata, ui_pc, ui_prompt,
                   ui_response, placeholder, http_calls, submitted, inbox, serving>>

\* the run reaches a yield point with a request waiting: it ends there, and a
\* submission starts the next run
UIInterrupt ==
    /\ Pending
    /\ ui_pc \in ElementYields \cup StateYields
    /\ IF ui_request.kind = "rerun"
       THEN StartRun(ui_request.prompt)
       ELSE EndRun /\ UNCHANGED placeholder
    /\ UNCHANGED <<svars, rvars, probe, messages, last_metadata, http_calls,
                   submitted, inbox, serving>>

\* line 118
UIAppendUser ==
    /\ ui_pc = "chat_input"
    /\ messages' = Append(messages, UserTurn(ui_prompt))
    /\ ui_pc' = "appended"
    /\ UNCHANGED <<svars, rvars, probe, last_metadata, ui_prompt, ui_response,
                   ui_request, placeholder, http_calls, submitted, inbox, serving>>

\* lines 119-124
UIShowThinking ==
    /\ ui_pc = "appended"
    /\ ~Pending
    /\ placeholder' = Thinking
    /\ ui_pc' = "thinking"
    /\ UNCHANGED <<svars, rvars, probe, messages, last_metadata, ui_prompt,
                   ui_response, ui_request, http_calls, submitted, inbox, serving>>

\* lines 126-129: requests.post sends the request and waits for the response
UIPost ==
    /\ ui_pc = "thinking"
    /\ http_calls' = http_calls + 1
    /\ inbox' = Append(inbox, [id |-> http_calls', body |-> Payload(ui_prompt)])
    /\ ui_pc' = "waiting"
    /\ UNCHANGED <<svars, rvars, probe, messages, last_metadata, ui_prompt,
                   ui_response, ui_request, placeholder, submitted, serving>>

\* lines 126-129: requests.post raises, the endpoint is not reached
UIPostFailed ==
    /\ ui_pc = "thinking"
    /\ http_calls' = http_calls + 1
    /\ ui_pc' = "failed"
    /\ UNCHANGED <<svars, rvars, probe, messages, last_metadata, ui_prompt,
                   ui_response, ui_request, placeholder, submitted, inbox, serving>>

\* lines 129-132: requests.post returns the endpoint's response to this call
UIResponse ==
    /\ ui_pc = "waiting"
    /\ pc = "responded"
    /\ client = "ui"
    /\ serving = http_calls
    /\ ui_response' = response
    /\ ui_pc' = IF response.status = StatusOK THEN "got200" ELSE "failed"
    /\ UNCHANGED <<svars, rvars, probe, messages, last_metadata, ui_prompt,
                   ui_request, placeholder, http_calls, submitted, inbox, serving>>

\* line 129: the connection breaks while requests.post waits, wherever the
\* endpoint is with the request; the endpoint goes on handling it
UIResponseLost ==
    /\ ui_pc = "waiting"
    /\ ui_pc' = "failed"
    /\ UNCHANGED <<svars, rvars, probe, messages, last_metadata, ui_prompt,
                   ui_response, ui_request, placeholder, http_calls, submitted,
                   inbox, serving>>

\* lines 133-141
UISetMetadata(latency) ==
    /\ ui_pc = "got200"
    /\ last_metadata' = Metadata(Json(ui_response), latency)
    /\ ui_pc' = "metaset"
    /\ UNCHANGED <<svars, rvars, probe, messages, ui_prompt, ui_response,
                   ui_request, placeholder, http_calls, submitted, inbox, serving>>

\* line 143
UIShowAnswer ==
    /\ ui_pc = "metaset"
    /\ ~Pending
    /\ placeholder' = Answer(ui_response)
    /\ ui_pc' = "shown"
    /\ UNCHANGED <<svars, rvars, probe, messages, last_metadata, ui_prompt,
                   ui_response, ui_request, http_calls, submitted, inbox, serving>>

\* lines 144-145: the assistant turn is appended and st.rerun() ends the run.
\* The page is drawn anew from messages, by the run of a waiting submission
\* if there is one; with a Stop waiting the rerun is refused and the run ends
\* with the page as drawn, the placeholder still showing the answer.
UIAppendAnswer ==
    /\ ui_pc = "shown"
    /\ messages' = messages \o AnswerTurns(Answer(ui_response))
    /\ CASE ui_request.kind = "rerun" -> StartRun(ui_request.prompt)
         [] ui_request.kind = "stop" -> EndRun /\ UNCHANGED placeholder
         [] OTHER -> EndRun /\ placeholder' = EmptyText
    /\ UNCHANGED <<svars, rvars, probe, last_metadata, http_calls, submitted,
                   inbox, serving>>

\* lines 146-149: the error is shown in the placeholder and the run goes on to
\* its end
UIShowError ==
    /\ ui_pc = "failed"
    /\ ~Pending
    /\ placeholder' = ErrorText
    /\ messages' = messages \o ErrorTurns(placeholder')
    /\ EndRun
    /\ UNCHANGED <<svars, rvars, probe, last_metadata, http_calls, submitted,
                   inbox, serving>>

\* ------------------------------------------------------------ specifications
\* the endpoint serving API clients
Next ==
    \/ \E body \in Bodies : AskEndpoint(body)
    \/ GetAiResponse
    \/ TherapyGenerate
    \/ SearchNigerianLaws
    \/ GetEconomicContext
    \/ GenerateAnswer
    \/ Respond

Spec == Init /\ [][Next]_vars

\* the presenter and the endpoint it calls
NextUI ==
    \/ \E text \in Queries : UISubmit(text)
    \/ UIStop
    \/ UIInterrupt
    \/ UIAppendUser
    \/ UIShowThinking
    \/ UIPost
    \/ UIPostFailed
    \/ UIResponse
    \/ UIResponseLost
    \/ \E latency \in Latencies : UISetMetadata(latency)
    \/ UIShowAnswer
    \/ UIAppendAnswer
    \/ UIShowError
    \/ ServeUI
    \/ GetAiResponse
    \/ SearchNigerianLaws
    \/ GetEconomicContext
    \/ GenerateAnswer
    \/ Respond

\* The presenter reads the status, answer, sources and economic_data of the
\* response only: it is run against collaborators that raise or answer, with
\* one document or a full page of them, with rows or an exception.
InitUI ==
    /\ Init
    /\ searchStub[Q1].raises \/ searchStub[Q1].results \in {Ranked(1), Ranked(PageSize)}
    /\ econStub.raises \/ econStub.rows # << >>

SpecUI == InitUI /\ [][NextUI]_vars

\* ------------------------------------------------------------------ claims
\* the request being handled has query text and has been answered
Answered == pc = "responded" /\ user_query # EmptyText

InCalls(c) == \E i \in 1..Len(calls) : calls[i] = c

\* C1: every request with non-empty query text is answered with HTTP 200 and
\* a non-empty answer, whatever the collaborators do.
C1_AlwaysAnswers ==
    Answered => response.status = StatusOK /\ response.answer # EmptyText

\* the body carries text neither in query nor in question
NoText(body) == ~Truthy(body, "query") /\ ~Truthy(body, "question")

\* C2: a request whose body has no query text (user_query, the request's
\* final_query, is then empty) is answered 4xx at once: the handler stops
\* there, with no retrieval, analytics or generation call made.
C2_EmptyQueryRejected ==
    /\ \A body \in Bodies :
          NoText(body) <=> final_query(QueryRequest(body)) = EmptyText
    /\ (pc # "idle" /\ user_query = EmptyText) =>
          /\ pc = "responded"
          /\ response.status \in 400..499
          /\ calls = << >>

C2_Witness ==
    /\ pc = "responded"
    /\ user_query = EmptyText
    /\ response.status = StatusBadRequest
    /\ calls = << >>

Lookups == {"search_nigerian_laws", "client.search", "get_economic_context",
            "bq_client.query"}

\* C3: while a request with mode "therapy" is handled, no retrieval call and
\* no analytics call is made.
C3_TherapyNoLookups ==
    mode = "therapy" => \A i \in 1..Len(calls) : calls[i] \notin Lookups

C3_Witness ==
    /\ mode = "therapy"
    /\ Answered
    /\ my_credentials
    /\ bq_client
    /\ calls = <<"generate_content">>

\* the evidence item the code builds from a result
Evidence(derived) ==
    [source |-> Title(derived),
     content |-> IF ContentRaises(derived) THEN EmptyText
                 ELSE CleanContent(RawContent(derived))]

\* t is s with some items left out, the others in the same order
IsSubsequence(t, s) == \E keep \in SUBSET (1..Len(s)) : t = SelectAt(s, keep, 1)

Returned == searchStub[user_query].results

\* C4: in tax mode the response's sources are at most 3 items, in the order
\* the retrieval collaborator returned them.
C4_AtMostThreeInOrder ==
    (Answered /\ mode = "tax" /\ response.status = StatusOK) =>
        /\ Len(response.sources) <= PageSize
        /\ IsSubsequence(response.sources,
                         [i \in 1..Len(Returned) |-> Evidence(Returned[i])])

\* C5: in tax mode, when retrieval yields no evidence the request still
\* succeeds, the prompt carries the fallback text and sources is empty.
C5_FallbackOnNoEvidence ==
    (Answered /\ mode = "tax" /\ InCalls("search_nigerian_laws")
        /\ sources_list = << >>) =>
        /\ response.status = StatusOK
        /\ Contains(prompt, NoDocument)
        /\ response.sources = << >>

\* C6: a request for a (query, mode) handled before gets the same prompt and
\* the same response as the first time, whatever was handled in between.
C6_Stateless ==
    \A p \in probe :
        (Answered /\ user_query = p.query /\ mode = p.mode) =>
            /\ prompt = p.prompt
            /\ response = p.response

C6_Witness ==
    \E p \in probe :
        /\ Answered
        /\ user_query = p.query
        /\ mode = p.mode
        /\ p.interleaved
        /\ response.status = StatusOK
        /\ response.sources # << >>
        /\ response.economic_data # EmptyText

\* the positions of a script run whose call has returned status 200
After200 == {"got200", "metaset", "shown"}

\* a step that ends such a run
Ends200 == ui_pc \in After200 /\ ui_pc' \notin After200

\* C7: the presenter makes exactly one HTTP call per submitted query: never
\* more calls than submissions, and as many as submissions whenever no run is
\* going on; a run whose call returned 200 ends with the user turn and then
\* the assistant turn with the returned answer last in the transcript, and
\* with last_metadata holding the response's sources and economic_data; no
\* step other than one of a 200 return changes last_metadata.
C7_OneCallPerTurn ==
    [][/\ http_calls' <= submitted'
       /\ ui_pc' = "ready" => http_calls' = submitted'
       /\ Ends200 =>
            /\ Len(messages') >= 2
            /\ SubSeq(messages', Len(messages') - 1, Len(messages'))
                  = <<UserTurn(ui_prompt), AssistantTurn(ui_response.answer)>>
            /\ last_metadata' # NoMetadata
            /\ last_metadata'.sources = ui_response.sources
            /\ last_metadata'.economic_data = ui_response.economic_data
       /\ last_metadata' # last_metadata => ui_pc \in After200]_vars

\* position of a call in the order retrieval, analytics, generation
Rank(c) ==
    CASE c = "search_nigerian_laws" -> 1
      [] c = "client.search" -> 2
      [] c = "get_economic_context" -> 3
      [] c = "bq_client.query" -> 4
      [] OTHER -> 5

TaxPath == model /\ mode = "tax" /\ user_query # EmptyText

\* C8: on the tax path with the model available the calls are made one after
\* another in the order retrieval, analytics, generation, none twice, and a
\* request that has returned has made each of the three.
C8_SequentialCalls ==
    TaxPath =>
        /\ \A i, j \in 1..Len(calls) : i < j => Rank(calls[i]) < Rank(calls[j])
        /\ pc \in {"unpack", "responded"} =>
              /\ InCalls("search_nigerian_laws")
              /\ InCalls("get_economic_context")
              /\ InCalls("generate_content")

C8_Witness ==
    /\ TaxPath
    /\ pc = "responded"
    /\ GenRaises(prompt)
    /\ calls = <<"search_nigerian_laws", "client.search", "get_economic_context",
                 "bq_client.query", "generate_content">>

RetrievalFailed ==
    \/ ~my_credentials
    \/ searchStub[user_query].raises
    \/ \E i \in 1..Len(Returned) : ContentRaises(Returned[i])

AnalyticsFailed == ~bq_client \/ econStub.raises

\* C9: on the tax path, when generation succeeds the request is answered 200
\* with the generated answer even if retrieval or analytics failed; sources is
\* empty if retrieval failed, economic_data is empty if analytics failed.
C9_DegradedNotFailed ==
    (TaxPath /\ pc \in {"unpack", "responded"}) =>
        /\ InCalls("generate_content")
        /\ (pc = "responded" /\ ~GenRaises(prompt)) =>
              /\ response.status = StatusOK
              /\ response.answer = GenText(prompt)
              /\ RetrievalFailed => response.sources = << >>
              /\ AnalyticsFailed => response.economic_data = EmptyText

C9_Witness ==
    /\ TaxPath
    /\ pc = "responded"
    /\ my_credentials
    /\ bq_client
    /\ searchStub[user_query].raises
    /\ econStub.raises
    /\ response.status = StatusOK
    /\ response.answer = GenText(prompt)

\* content of field number i of a result; absent fields and empty lists give
\* the empty text
FieldContent(derived, i) ==
    LET f == ContentFields[i]
    IN  IF f.field \in DOMAIN derived /\ derived[f.field] # << >>
        THEN DictGet(derived[f.field][1], f.key, EmptyText)
        ELSE EmptyText

HasContent(derived) ==
    \E i \in 1..Len(ContentFields) : FieldContent(derived, i) # EmptyText

\* the first non-empty content in priority order
FirstNonEmpty(derived) ==
    FieldContent(derived,
        CHOOSE i \in 1..Len(ContentFields) :
            /\ FieldContent(derived, i) # EmptyText
            /\ \A j \in 1..(i - 1) : FieldContent(derived, j) = EmptyText)

\* C10: the evidence holds, for every result with a non-empty content in some
\* field, the content of the first such field in priority order, and leaves
\* out only the results with none.
C10_FirstNonEmptyField ==
    (TaxPath /\ pc \in {"econ", "generate", "unpack", "responded"}
        /\ ~RetrievalFailed) =>
        sources_list =
            SelectAt([i \in 1..Len(Returned) |->
                        [source |-> Title(Returned[i]),
                         content |-> IF HasContent(Returned[i])
                                     THEN CleanContent(FirstNonEmpty(Returned[i]))
                                     ELSE EmptyText]],
                     {i \in 1..Len(Returned) : HasContent(Returned[i])}, 1)

\* messages' is messages with turns added at the end
Extends(old, new) == Len(new) >= Len(old) /\ SubSeq(new, 1, Len(old)) = old

\* C11: the transcript only grows at its end, by one turn in a step, and only
\* in the steps of lines 118 and 144; the step of line 118 adds the user turn;
\* once the call of a turn has failed (requests.post raised or returned a
\* status other than 200) the user turn stays last in the transcript, with no
\* assistant turn added, and last_metadata stays as it was; last_metadata
\* changes only in a turn whose call returned 200.
C11_FailedTurnKeepsEvidence ==
    [][/\ Extends(messages, messages')
       /\ Len(messages') <= Len(messages) + 1
       /\ messages' # messages => ui_pc \in {"chat_input", "shown"}
       /\ (ui_pc = "chat_input" /\ messages' # messages) =>
            messages' = Append(messages, UserTurn(ui_prompt))
       /\ (ui_pc = "failed" \/ ui_pc' = "failed") =>
            /\ messages' = messages
            /\ messages # << >>
            /\ messages[Len(messages)] = UserTurn(ui_prompt)
            /\ last_metadata' = last_metadata
       /\ last_metadata' # last_metadata => ui_pc = "got200"]_vars

\* a turn answered 200 and then a turn answered with another status
C11_Witness ==
    /\ ui_pc = "ready"
    /\ Len(messages) = 3
    /\ messages[2].role = "assistant"
    /\ messages[3].role = "user"
    /\ placeholder # EmptyText
    /\ placeholder[1] = "API Error: "
    /\ last_metadata # NoMetadata
    /\ last_metadata.economic_data # EmptyText

\* a failed first turn: the side panel has nothing to show
C11_WitnessNone ==
    /\ ui_pc = "ready"
    /\ Len(messages) = 1
    /\ placeholder # EmptyText
    /\ placeholder[1] = "Connection Failed: "
    /\ last_metadata = NoMetadata

====
